---- MODULE Spec2Model ----
(***************************************************************************)
(* Job processing pipeline of the WatchTheFall portal.                     *)
(*                                                                         *)
(*   portal/app.py        process_video_endpoint (submit), process_async,  *)
(*                        get_job_status (read path)                       *)
(*                        convert_watermark (WebM to MP4 conversion)       *)
(*                        fetch_videos_from_urls (remote fetch)            *)
(*   portal/processor.py  process_video (execution body)                   *)
(*   portal/database.py   create_job, get_job, update_job_status,          *)
(*                        log_event: the Job Record Store and event log.   *)
(*                        Modelled from section 4.1 of the specification.  *)
(*                                                                         *)
(* Every HTTP request and every background thread is a sequential process  *)
(* whose steps are separated at the calls that touch shared state (the     *)
(* job store, the event log, the subprocess, the file system).             *)
(***************************************************************************)
EXTENDS Integers, Sequences, FiniteSets, TLC

\* ------------------------------------------------------------------ bounds
\* number of submit requests issued by clients
MaxReq == 2

\* number of convert_watermark requests issued by clients
MaxConv == 2

Requests == 1..MaxReq
Conversions == 1..MaxConv
\* the job ids uuid4().hex[:12] can produce: two values give a collision
\* between two submissions and two jobs executing side by side
JobIds == {1, 2}
\* job_id = None (app.py:210, and log_event(level, None, ...))
NoJobId == 0

\* --------------------------------------------------------------- constants
\* RAM floor in MB: psutil.virtual_memory().available < 100 * 1024 * 1024
MemFloorMB == 100
\* available-memory readings (MB) the environment can report
MemReadings == {MemFloorMB - 50, MemFloorMB, MemFloorMB + 50}
\* sizes in bytes the transcoder can leave in the output file
OutSizes == {0, 1000, 1001}
\* the output file does not exist
NoFile == -1
\* requested filename (data.get('filename')): absent, uploaded, not uploaded
Filenames == {"", "clip.mp4", "ghost.mp4"}
Uploaded == {"clip.mp4"}
\* listing of TEMPLATE_DIR/watermarks as the resolver finds it
WatermarkDirs == {"missing", "nomatch", "match"}

None == <<>>
Terminal == {"completed", "failed"}
Statuses == {"queued", "processing", "completed", "failed"}

\* a job row that does not exist (get_job returns None)
NoJob == [status |-> "absent", output_path |-> None, error_message |-> None]

\* f"{template_name}_{job_id}.mp4"
OutputFilename(j) == <<"ScotlandWTF", "_", j, ".mp4">>

\* what the subprocess does once spawned: whether it ever closes its stderr,
\* whether it exits within the wait timeout, its return code and the output
\* file it leaves
NoProc == [beh |-> "none", code |-> 0, out |-> NoFile]
ProcRuns ==
    {[beh |-> "hang_open", code |-> 0, out |-> NoFile],
     [beh |-> "hang_closed", code |-> 0, out |-> NoFile],
     [beh |-> "exit", code |-> 1, out |-> NoFile]}
    \cup {[beh |-> "exit", code |-> 0, out |-> s] : s \in OutSizes \cup {NoFile}}

NoResp == [code |-> 0, success |-> FALSE, job_id |-> NoJobId,
           status |-> "none", error |-> "none"]
NoPoll == [code |-> 0, status |-> "unpolled", output_file |-> None, error |-> None]

VARIABLES
    psutil,     \* whether the psutil import succeeded (processor.py:7-10)
    jobs,       \* Job Record Store: job_id -> row
    log,        \* event log rows, per job_id column, in insertion order
    rpc,        \* control point of each submit request
    rjob,       \* job_id local of each submit request
    rfail,      \* create_job raised inside this request
    resp,       \* HTTP response of each submit request
    obs,        \* response of the client's first status poll after submit
    threadReqs, \* requests that started a background thread
    wpc,        \* control point of the background thread of each job
    werr,       \* exception caught by process_video's handler (str(e))
    memCheck,   \* outcome of the RAM guard: "unread", "skipped", "low", "ok"
    spawns,     \* number of Popen calls made for the job
    proc,       \* the job's subprocess
    calc,       \* locals of one process_video call followed in detail
    cpc,        \* control point of each convert_watermark request
    cname,      \* webm_filename local of each convert_watermark request
    cout,       \* outcome of the conversion subprocess of each request
    ctemp,      \* temp files present in tempfile.gettempdir()
    fetch       \* the fetch_videos_from_urls request and the yt_dlp import

\* the job pipeline
coreVars == <<psutil, jobs, log, rpc, rjob, rfail, resp, obs, threadReqs,
              wpc, werr, memCheck, spawns, proc>>
\* the watermark conversion endpoint
convVars == <<cpc, cname, cout, ctemp>>
auxVars == <<calc, convVars, fetch>>

vars == <<coreVars, auxVars>>

reqVars == <<rpc, rjob, rfail, resp, obs, threadReqs>>
workVars == <<wpc, werr, memCheck, spawns, proc>>

\* -------------------------------------------------- Job Record Store (4.1)
\* create(job_id, ...): fails with DuplicateJobError if job_id already exists
create_job_raises(j) == jobs[j].status # "absent"
create_job(j) ==
    [jobs EXCEPT ![j] = [status |-> "queued", output_path |-> None,
                         error_message |-> None]]

\* get(job_id) -> Job | NotFound
get_job(j) == jobs[j]

\* update_status(job_id, status, output_path?, error_message?): fails with
\* UnknownJobError if absent; a terminal status is not protected
update_job_status_raises(j) == jobs[j].status = "absent"
update_job_status(j, status, output_path, error_message) ==
    [jobs EXCEPT ![j] = [status |-> status,
                         output_path |-> IF output_path # None
                                         THEN output_path ELSE @.output_path,
                         error_message |-> IF error_message # None
                                           THEN error_message ELSE @.error_message]]

\* log_event(level, job_id, message): appends one row
log_event(level, j, message) ==
    [log EXCEPT ![j] = Append(@, <<level, message>>)]

CoreInit ==
    /\ psutil \in BOOLEAN
    /\ jobs = [j \in JobIds |-> NoJob]
    /\ log = [j \in JobIds \cup {NoJobId} |-> <<>>]
    /\ rpc = [r \in Requests |-> "idle"]
    /\ rjob = [r \in Requests |-> NoJobId]
    /\ rfail = [r \in Requests |-> FALSE]
    /\ resp = [r \in Requests |-> NoResp]
    /\ obs = [r \in Requests |-> NoPoll]
    /\ threadReqs = {}
    /\ wpc = [j \in JobIds |-> "idle"]
    /\ werr = [j \in JobIds |-> None]
    /\ memCheck = [j \in JobIds |-> "unread"]
    /\ spawns = [j \in JobIds |-> 0]
    /\ proc = [j \in JobIds |-> NoProc]

\* no process_video call is followed in detail
NoCalc == [pc |-> "off", field |-> "", aspect_ratio |-> "",
           fname_len |-> 0, tmpl_len |-> 0, target_w |-> 0, target_h |-> 0,
           cause |-> "none", exc_len |-> 0, msg_len |-> 0]

\* no convert_watermark request has arrived
ConvIdle ==
    /\ cpc = [c \in Conversions |-> "idle"]
    /\ cname = [c \in Conversions |-> <<>>]
    /\ cout = [c \in Conversions |-> "none"]
    /\ ctemp = {}

NoFetchResp == [code |-> 0, success |-> FALSE, total |-> 0, successful |-> 0,
                results |-> <<>>]
\* the module is not imported yet and no fetch request has arrived
NoFetch == [pc |-> "unloaded", YoutubeDL |-> FALSE, kind |-> "none",
            urls |-> <<>>, started |-> <<>>, results |-> <<>>,
            resp |-> NoFetchResp]

Init ==
    /\ CoreInit
    /\ calc = NoCalc
    /\ ConvIdle
    /\ fetch = NoFetch

\* ------------------------------------------ submit: process_video_endpoint
\* uuid.uuid4().hex[:12] (app.py:227): any id already in the store (a
\* collision) or a fresh one.  Requests are numbered in arrival order and
\* fresh ids in order of first use; both only name the values.
DrawableIds ==
    {i \in JobIds : \A k \in JobIds : k < i => jobs[k].status # "absent"}

\* the job row is not written by the request (it is left to the thread)
create_job_deferred(r, id) ==
    /\ rjob' = [rjob EXCEPT ![r] = id]
    /\ rpc' = [rpc EXCEPT ![r] = "created"]
    /\ UNCHANGED <<jobs, rfail>>

\* a raise of create_job is swallowed and the request carries on
create_job_error_ignored(r, id) ==
    /\ rjob' = [rjob EXCEPT ![r] = id]
    /\ rpc' = [rpc EXCEPT ![r] = "created"]
    /\ IF create_job_raises(id)
       THEN /\ rfail' = [rfail EXCEPT ![r] = TRUE]
            /\ UNCHANGED jobs
       ELSE /\ jobs' = create_job(id)
            /\ UNCHANGED rfail

\* app.py:226-228: job_id = uuid.uuid4().hex[:12]; create_job(job_id, ...).
\* A raise of create_job lands in the endpoint's except clause (app.py:260).
process_video_endpoint_create_job(r, id) ==
    /\ rjob' = [rjob EXCEPT ![r] = id]
    /\ IF create_job_raises(id)
       THEN /\ rfail' = [rfail EXCEPT ![r] = TRUE]
            /\ rpc' = [rpc EXCEPT ![r] = "handler"]
            /\ UNCHANGED jobs
       ELSE /\ jobs' = create_job(id)
            /\ rpc' = [rpc EXCEPT ![r] = "created"]
            /\ UNCHANGED rfail

\* app.py:212-228: validate the request, then create the job
process_video_endpoint_create(r) ==
    /\ rpc[r] = "idle"
    /\ \A q \in Requests : q < r => rpc[q] # "idle"
    /\ \E filename \in Filenames, id \in DrawableIds :
         IF filename = ""
         THEN /\ resp' = [resp EXCEPT ![r] = [code |-> 400, success |-> FALSE,
                             job_id |-> NoJobId, status |-> "none",
                             error |-> "No filename provided"]]
              /\ rpc' = [rpc EXCEPT ![r] = "done"]
              /\ UNCHANGED <<jobs, rjob, rfail>>
         ELSE IF filename \notin Uploaded
         THEN /\ resp' = [resp EXCEPT ![r] = [code |-> 404, success |-> FALSE,
                             job_id |-> NoJobId, status |-> "none",
                             error |-> "Video file not found"]]
              /\ rpc' = [rpc EXCEPT ![r] = "done"]
              /\ UNCHANGED <<jobs, rjob, rfail>>
         ELSE /\ process_video_endpoint_create_job(r, id)
              /\ UNCHANGED resp
    /\ UNCHANGED <<auxVars, psutil, log, obs, threadReqs, workVars>>

\* app.py:230-231: log_event('info', job_id, 'Job queued for processing')
process_video_endpoint_log(r) ==
    /\ rpc[r] = "created"
    /\ log' = log_event("info", rjob[r], "Job queued for processing")
    /\ rpc' = [rpc EXCEPT ![r] = "logged"]
    /\ UNCHANGED <<auxVars, psutil, jobs, rjob, rfail, resp, obs, threadReqs, workVars>>

\* app.py:248-249: threading.Thread(target=process_async, daemon=True).start()
\* start() raises RuntimeError("can't start new thread") when the operating
\* system refuses another thread; the exception goes to the handler
process_video_endpoint_start(r) ==
    /\ rpc[r] = "logged"
    /\ \/ /\ threadReqs' = threadReqs \cup {r}
          /\ wpc' = [wpc EXCEPT ![rjob[r]] = IF @ = "idle" THEN "started" ELSE @]
          /\ rpc' = [rpc EXCEPT ![r] = "started"]
       \/ /\ rpc' = [rpc EXCEPT ![r] = "handler"]
          /\ UNCHANGED <<threadReqs, wpc>>
    /\ UNCHANGED <<auxVars, psutil, jobs, log, rjob, rfail, resp, obs,
                   werr, memCheck, spawns, proc>>

\* the request joins the thread before it answers
process_video_endpoint_return_joined(r) ==
    /\ rpc[r] = "started"
    /\ wpc[rjob[r]] = "done"
    /\ resp' = [resp EXCEPT ![r] = [code |-> 200, success |-> TRUE,
                    job_id |-> rjob[r], status |-> "processing",
                    error |-> "none"]]
    /\ rpc' = [rpc EXCEPT ![r] = "done"]
    /\ UNCHANGED <<auxVars, psutil, jobs, log, rjob, rfail, obs, threadReqs, workVars>>

\* app.py:251-258: return the job handle at once; the thread is not joined
process_video_endpoint_return(r) ==
    /\ rpc[r] = "started"
    /\ resp' = [resp EXCEPT ![r] = [code |-> 200, success |-> TRUE,
                    job_id |-> rjob[r], status |-> "processing",
                    error |-> "none"]]
    /\ rpc' = [rpc EXCEPT ![r] = "done"]
    /\ UNCHANGED <<auxVars, psutil, jobs, log, rjob, rfail, obs, threadReqs, workVars>>

\* app.py:260-269: except Exception: log the failure, answer 500
process_video_endpoint_except(r) ==
    /\ rpc[r] = "handler"
    /\ log' = log_event("error", rjob[r], "Process request failed")
    /\ resp' = [resp EXCEPT ![r] = [code |-> 500, success |-> FALSE,
                    job_id |-> rjob[r], status |-> "none",
                    error |-> IF rfail[r] THEN "DuplicateJobError"
                              ELSE "can't start new thread"]]
    /\ rpc' = [rpc EXCEPT ![r] = "done"]
    /\ UNCHANGED <<auxVars, psutil, jobs, rjob, rfail, obs, threadReqs, workVars>>

\* ------------------------------------------------ read path: get_job_status
\* the response never carries the error text
status_response_no_error(j) ==
    LET job == get_job(j) IN
    IF job.status = "absent"
    THEN [code |-> 404, status |-> "NotFound", output_file |-> None, error |-> None]
    ELSE [code |-> 200, status |-> job.status,
          output_file |-> IF job.status = "completed" /\ job.output_path # None
                          THEN job.output_path ELSE None,
          error |-> None]

\* app.py:275-295: the response built from the stored row
status_response(j) ==
    LET job == get_job(j) IN
    IF job.status = "absent"
    THEN [code |-> 404, status |-> "NotFound", output_file |-> None, error |-> None]
    ELSE [code |-> 200, status |-> job.status,
          output_file |-> IF job.status = "completed" /\ job.output_path # None
                          THEN job.output_path ELSE None,
          error |-> IF job.status = "failed" /\ job.error_message # None
                    THEN job.error_message ELSE None]

get_job_status_logging(r) ==
    /\ rpc[r] = "done"
    /\ resp[r].success
    /\ obs[r] = NoPoll
    /\ obs' = [obs EXCEPT ![r] = status_response(resp[r].job_id)]
    /\ log' = log_event("info", resp[r].job_id, "status read")
    /\ UNCHANGED <<auxVars, psutil, jobs, rpc, rjob, rfail, resp, threadReqs, workVars>>

\* the client's first poll of the handle a successful submit returned
get_job_status(r) ==
    /\ rpc[r] = "done"
    /\ resp[r].success
    /\ obs[r] = NoPoll
    /\ obs' = [obs EXCEPT ![r] = status_response(resp[r].job_id)]
    /\ UNCHANGED <<auxVars, psutil, jobs, log, rpc, rjob, rfail, resp, threadReqs, workVars>>

\* ------------------------------------ execution: process_video (thread)
\* Leaving the try block with an exception: control passes to the handler
\* at processor.py:143 with error_msg = str(e).
Raise(j, message) ==
    /\ werr' = [werr EXCEPT ![j] = <<message>>]
    /\ wpc' = [wpc EXCEPT ![j] = "except"]

\* the guard reads the memory but lets a low reading pass
process_video_guard_no_raise(j) ==
    /\ wpc[j] = "started"
    /\ IF psutil
       THEN \E printed \in MemReadings, available \in MemReadings :
              memCheck' = [memCheck EXCEPT ![j] =
                              IF available < MemFloorMB THEN "low" ELSE "ok"]
       ELSE memCheck' = [memCheck EXCEPT ![j] = "skipped"]
    /\ wpc' = [wpc EXCEPT ![j] = "set_processing"]
    /\ UNCHANGED <<auxVars, psutil, jobs, log, reqVars, werr, spawns, proc>>

\* processor.py:28-33: the RAM guard, run only when psutil was imported.
\* The first reading is printed, the second one decides.
process_video_guard(j) ==
    /\ wpc[j] = "started"
    /\ IF psutil
       THEN \E printed \in MemReadings, available \in MemReadings :
              IF available < MemFloorMB
              THEN /\ memCheck' = [memCheck EXCEPT ![j] = "low"]
                   /\ Raise(j, "Not enough RAM for safe processing")
              ELSE /\ memCheck' = [memCheck EXCEPT ![j] = "ok"]
                   /\ wpc' = [wpc EXCEPT ![j] = "set_processing"]
                   /\ UNCHANGED werr
       ELSE /\ memCheck' = [memCheck EXCEPT ![j] = "skipped"]
            /\ wpc' = [wpc EXCEPT ![j] = "set_processing"]
            /\ UNCHANGED werr
    /\ UNCHANGED <<auxVars, psutil, jobs, log, reqVars, spawns, proc>>

\* processor.py:36: update_job_status(job_id, 'processing')
process_video_set_processing(j) ==
    /\ wpc[j] = "set_processing"
    /\ IF update_job_status_raises(j)
       THEN /\ Raise(j, "UnknownJobError")
            /\ UNCHANGED jobs
       ELSE /\ jobs' = update_job_status(j, "processing", None, None)
            /\ wpc' = [wpc EXCEPT ![j] = "log_start"]
            /\ UNCHANGED werr
    /\ UNCHANGED <<auxVars, psutil, log, reqVars, memCheck, spawns, proc>>

\* processor.py:37: log_event('info', job_id, 'Starting video processing: ..')
process_video_log_start(j) ==
    /\ wpc[j] = "log_start"
    /\ log' = log_event("info", j, "Starting video processing")
    /\ wpc' = [wpc EXCEPT ![j] = "resolve"]
    /\ UNCHANGED <<auxVars, psutil, jobs, reqVars, werr, memCheck, spawns, proc>>

\* processor.py:40-54: resolve the watermark; os.listdir raises when the
\* watermark directory is missing, no match leaves watermark_path = None
process_video_resolve(j) ==
    /\ wpc[j] = "resolve"
    /\ \E dir \in WatermarkDirs :
         IF dir = "missing"
         THEN Raise(j, "No such file or directory")
         ELSE /\ wpc' = [wpc EXCEPT ![j] = "log_ffmpeg"]
              /\ UNCHANGED werr
    /\ UNCHANGED <<auxVars, psutil, jobs, log, reqVars, memCheck, spawns, proc>>

\* processor.py:58-107: build the command, log_event('info', job_id,
\* 'Running ffmpeg (low-memory mode): ...')
process_video_log_ffmpeg(j) ==
    /\ wpc[j] = "log_ffmpeg"
    /\ log' = log_event("info", j, "Running ffmpeg")
    /\ wpc' = [wpc EXCEPT ![j] = "spawn"]
    /\ UNCHANGED <<auxVars, psutil, jobs, reqVars, werr, memCheck, spawns, proc>>

\* processor.py:110-115: subprocess.Popen(cmd, stdout=PIPE, stderr=PIPE)
process_video_spawn(j) ==
    /\ wpc[j] = "spawn"
    /\ \E run \in ProcRuns : proc' = [proc EXCEPT ![j] = run]
    /\ spawns' = [spawns EXCEPT ![j] = @ + 1]
    /\ wpc' = [wpc EXCEPT ![j] = "read_stderr"]
    /\ UNCHANGED <<auxVars, psutil, jobs, log, reqVars, werr, memCheck>>

\* processor.py:118-122: for line in process.stderr: the loop ends only at
\* end of file, that is when the subprocess closes its stderr
process_video_read_stderr(j) ==
    /\ wpc[j] = "read_stderr"
    /\ proc[j].beh # "hang_open"
    /\ wpc' = [wpc EXCEPT ![j] = "wait"]
    /\ UNCHANGED <<auxVars, psutil, jobs, log, reqVars, werr, memCheck, spawns, proc>>

\* a non-zero exit is retried once before it is raised
process_video_wait_retry(j) ==
    /\ wpc[j] = "wait"
    /\ IF proc[j].beh # "exit"
       THEN Raise(j, "timed out after 600 seconds")
       ELSE IF proc[j].code # 0 /\ spawns[j] < 2
       THEN /\ wpc' = [wpc EXCEPT ![j] = "spawn"]
            /\ UNCHANGED werr
       ELSE IF proc[j].code # 0
       THEN Raise(j, "FFmpeg failed")
       ELSE IF proc[j].out = NoFile
       THEN Raise(j, "Output file not created")
       ELSE /\ wpc' = [wpc EXCEPT ![j] = "log_complete"]
            /\ UNCHANGED werr
    /\ UNCHANGED <<auxVars, psutil, jobs, log, reqVars, memCheck, spawns, proc>>

\* the return code is checked, the existence of the output file is not
process_video_wait_no_exists_check(j) ==
    /\ wpc[j] = "wait"
    /\ IF proc[j].beh # "exit"
       THEN Raise(j, "timed out after 600 seconds")
       ELSE IF proc[j].code # 0
       THEN Raise(j, "FFmpeg failed")
       ELSE /\ wpc' = [wpc EXCEPT ![j] = "log_complete"]
            /\ UNCHANGED werr
    /\ UNCHANGED <<auxVars, psutil, jobs, log, reqVars, memCheck, spawns, proc>>

\* processor.py:125-135: process.wait(timeout=600) raises TimeoutExpired when
\* the subprocess has not exited; then the return code and the existence of
\* the output file are checked
process_video_wait(j) ==
    /\ wpc[j] = "wait"
    /\ IF proc[j].beh # "exit"
       THEN Raise(j, "timed out after 600 seconds")
       ELSE IF proc[j].code # 0
       THEN Raise(j, "FFmpeg failed")
       ELSE IF proc[j].out = NoFile
       THEN Raise(j, "Output file not created")
       ELSE /\ wpc' = [wpc EXCEPT ![j] = "log_complete"]
            /\ UNCHANGED werr
    /\ UNCHANGED <<auxVars, psutil, jobs, log, reqVars, memCheck, spawns, proc>>

\* processor.py:138: log_event('info', job_id, 'Processing complete: ...')
process_video_log_complete(j) ==
    /\ wpc[j] = "log_complete"
    /\ log' = log_event("info", j, "Processing complete")
    /\ wpc' = [wpc EXCEPT ![j] = "set_completed"]
    /\ UNCHANGED <<auxVars, psutil, jobs, reqVars, werr, memCheck, spawns, proc>>

\* the completed write is followed by a raise inside the try block
process_video_set_completed_then_raise(j) ==
    /\ wpc[j] = "set_completed"
    /\ jobs' = update_job_status(j, "completed", OutputFilename(j), None)
    /\ Raise(j, "raised after the completed write")
    /\ UNCHANGED <<auxVars, psutil, log, reqVars, memCheck, spawns, proc>>

\* the completed write leaves out output_path
process_video_set_completed_no_path(j) ==
    /\ wpc[j] = "set_completed"
    /\ jobs' = update_job_status(j, "completed", None, None)
    /\ wpc' = [wpc EXCEPT ![j] = "returned"]
    /\ UNCHANGED <<auxVars, psutil, log, reqVars, werr, memCheck, spawns, proc>>

\* processor.py:139-141: update_job_status(job_id, 'completed',
\* output_path=output_filename); return output_filename
process_video_set_completed(j) ==
    /\ wpc[j] = "set_completed"
    /\ IF update_job_status_raises(j)
       THEN /\ Raise(j, "UnknownJobError")
            /\ UNCHANGED jobs
       ELSE /\ jobs' = update_job_status(j, "completed", OutputFilename(j), None)
            /\ wpc' = [wpc EXCEPT ![j] = "returned"]
            /\ UNCHANGED werr
    /\ UNCHANGED <<auxVars, psutil, log, reqVars, memCheck, spawns, proc>>

\* processor.py:143-148: log_event('error', job_id, 'Processing failed: ...')
process_video_except_log(j) ==
    /\ wpc[j] = "except"
    /\ log' = log_event("error", j, "Processing failed")
    /\ wpc' = [wpc EXCEPT ![j] = "except_update"]
    /\ UNCHANGED <<auxVars, psutil, jobs, reqVars, werr, memCheck, spawns, proc>>

\* the failed write is not restricted to the job's own row
process_video_except_update_all(j) ==
    /\ wpc[j] = "except_update"
    /\ IF update_job_status_raises(j)
       THEN /\ wpc' = [wpc EXCEPT ![j] = "escaped"]
            /\ UNCHANGED jobs
       ELSE /\ jobs' = [k \in JobIds |->
                          IF jobs[k].status = "absent" THEN jobs[k]
                          ELSE [jobs[k] EXCEPT !.status = "failed",
                                               !.error_message = werr[j]]]
            /\ wpc' = [wpc EXCEPT ![j] = "returned"]
    /\ UNCHANGED <<auxVars, psutil, log, reqVars, werr, memCheck, spawns, proc>>

\* processor.py:149-150: update_job_status(job_id, 'failed',
\* error_message=error_msg); return None.  A raise here leaves process_video.
process_video_except_update(j) ==
    /\ wpc[j] = "except_update"
    /\ IF update_job_status_raises(j)
       THEN /\ wpc' = [wpc EXCEPT ![j] = "escaped"]
            /\ UNCHANGED jobs
       ELSE /\ jobs' = update_job_status(j, "failed", None, werr[j])
            /\ wpc' = [wpc EXCEPT ![j] = "returned"]
    /\ UNCHANGED <<auxVars, psutil, log, reqVars, werr, memCheck, spawns, proc>>

\* app.py:238-245: process_async prints the outcome; an exception that left
\* process_video is caught and printed, and the thread ends
process_async_finish(j) ==
    /\ wpc[j] \in {"returned", "escaped"}
    /\ wpc' = [wpc EXCEPT ![j] = "done"]
    /\ UNCHANGED <<auxVars, psutil, jobs, log, reqVars, werr, memCheck, spawns, proc>>

\* the next step of the background thread of job j
process_async(j) ==
    \/ process_video_guard(j)
    \/ process_video_set_processing(j)
    \/ process_video_log_start(j)
    \/ process_video_resolve(j)
    \/ process_video_log_ffmpeg(j)
    \/ process_video_spawn(j)
    \/ process_video_read_stderr(j)
    \/ process_video_wait(j)
    \/ process_video_log_complete(j)
    \/ process_video_set_completed(j)
    \/ process_video_except_log(j)
    \/ process_video_except_update(j)
    \/ process_async_finish(j)

\* the next step of submit request r
process_video_endpoint(r) ==
    \/ process_video_endpoint_create(r)
    \/ process_video_endpoint_log(r)
    \/ process_video_endpoint_start(r)
    \/ process_video_endpoint_return(r)
    \/ process_video_endpoint_except(r)

Next ==
    \/ \E r \in Requests : process_video_endpoint_create(r)
    \/ \E r \in Requests : process_video_endpoint_log(r)
    \/ \E r \in Requests : process_video_endpoint_start(r)
    \/ \E r \in Requests : process_video_endpoint_return(r)
    \/ \E r \in Requests : process_video_endpoint_except(r)
    \/ \E r \in Requests : get_job_status(r)
    \/ \E j \in JobIds : process_video_guard(j)
    \/ \E j \in JobIds : process_video_set_processing(j)
    \/ \E j \in JobIds : process_video_log_start(j)
    \/ \E j \in JobIds : process_video_resolve(j)
    \/ \E j \in JobIds : process_video_log_ffmpeg(j)
    \/ \E j \in JobIds : process_video_spawn(j)
    \/ \E j \in JobIds : process_video_read_stderr(j)
    \/ \E j \in JobIds : process_video_wait(j)
    \/ \E j \in JobIds : process_video_log_complete(j)
    \/ \E j \in JobIds : process_video_set_completed(j)
    \/ \E j \in JobIds : process_video_except_log(j)
    \/ \E j \in JobIds : process_video_except_update(j)
    \/ \E j \in JobIds : process_async_finish(j)

Spec == Init /\ [][Next]_vars

\* Threads and request handlers are scheduled by the operating system: a
\* step that stays enabled is eventually taken.
FairSpec ==
    /\ Spec
    /\ \A r \in Requests : WF_vars(process_video_endpoint(r))
    /\ \A j \in JobIds : WF_vars(process_async(j))

\* ------------------------------- one process_video call followed in detail
\* The pipeline above keeps of a job only what other threads can see. The
\* actions below follow the locals of one call: the canvas computed from
\* aspect_ratio and the text of the exception the handler stores. Strings
\* are kept by their length in characters.

\* number of stderr lines containing 'error' or 'failed'
MaxErrLines == 6
\* stderr_errors[:5]
ErrLinesKept == 5
\* error_msg[:200]
ExcerptLen == 200
\* len('FFmpeg failed: ')
PrefixLen == 15

\* data.get('aspect_ratio', ...) before the default: key absent, JSON null,
\* or a string
AbsentField == "<absent>"
AspectFields == {AbsentField, "None", "", "9:16", "1:1", "16:9", "4:3", "9:16 "}
\* lengths of data['filename'] (any relative path that exists under
\* UPLOAD_DIR, "./././clip.mp4" included), of template_name, of a stripped
\* stderr line, and of the configured directories
FilenameLens == {8, 255, 3008}
TemplateLens == {11, 100}
LineLens == {5, 40, 300}
DirLen == 20

Min(a, b) == IF a < b THEN a ELSE b

\* aspect_ratio = data.get('aspect_ratio', '9:16')
aspect_ratio_arg(field) == IF field = AbsentField THEN "9:16" ELSE field

Canvas_else_landscape(aspect_ratio) ==
    IF aspect_ratio = "9:16" THEN <<1080, 1920>>
    ELSE IF aspect_ratio = "1:1" THEN <<1080, 1080>>
    ELSE <<1920, 1080>>

\* target_w, target_h
Canvas(aspect_ratio) ==
    IF aspect_ratio = "9:16" THEN <<1080, 1920>>
    ELSE IF aspect_ratio = "1:1" THEN <<1080, 1080>>
    ELSE IF aspect_ratio = "16:9" THEN <<1920, 1080>>
    ELSE <<1080, 1920>>

\* len(os.path.join(UPLOAD_DIR, filename))
video_path_len(fname_len) == DirLen + 1 + fname_len
\* len(os.path.join(OUTPUT_DIR, f"{template_name}_{job_id}.mp4")), job_id
\* being uuid4().hex[:12]
output_path_len(tmpl_len) == DirLen + 1 + tmpl_len + 1 + 12 + 4
\* len(os.path.join(TEMPLATE_DIR, 'template.png'))
template_path_len == DirLen + 1 + 12
\* len(os.path.join(TEMPLATE_DIR, 'watermarks', wm_file)) for a 12 character
\* file name
watermark_path_len == DirLen + 1 + 10 + 1 + 12

\* len(str(subprocess.TimeoutExpired(cmd, 600))): "Command '[...]' timed out
\* after 600 seconds", the list being repr(cmd). 362 characters are fixed;
\* the template filter adds 62 and its path, the watermark filter 92 and its
\* path, one more when wm_x has four digits (target_w = 1920).
timeout_message_len(fname_len, tmpl_len, target_w, has_template, has_watermark) ==
    362 + video_path_len(fname_len) + output_path_len(tmpl_len)
        + (IF has_template THEN 62 + template_path_len ELSE 0)
        + (IF has_watermark
           THEN 92 + watermark_path_len + (IF target_w = 1920 THEN 1 ELSE 0)
           ELSE 0)

\* len('\n'.join(stderr_errors[:5])) for n lines of the same length
joined_len(n, line_len) ==
    IF n = 0 THEN 0
    ELSE Min(n, ErrLinesKept) * line_len + (Min(n, ErrLinesKept) - 1)

\* len(f'FFmpeg failed: {error_msg[:200]}')
nonzero_message_len(n, line_len) ==
    PrefixLen + (IF n = 0 THEN 13 ELSE Min(joined_len(n, line_len), ExcerptLen))

\* process_async calls process_video(job_id, video_path, template, aspect_ratio)
local_call ==
    /\ calc.pc = "off"
    /\ \E field \in AspectFields, f \in FilenameLens, t \in TemplateLens :
        calc' = [pc |-> "called", field |-> field,
                 aspect_ratio |-> aspect_ratio_arg(field),
                 fname_len |-> f, tmpl_len |-> t,
                 target_w |-> 0, target_h |-> 0,
                 cause |-> "none", exc_len |-> 0, msg_len |-> 0]
    /\ UNCHANGED <<coreVars, convVars, fetch>>

\* RAM guard and watermark resolution, the two raises before the canvas
local_guard_resolve ==
    /\ calc.pc = "called"
    /\ \/ /\ psutil
          /\ calc' = [calc EXCEPT !.pc = "raised", !.cause = "memory",
                                  !.exc_len = 74]
       \/ calc' = [calc EXCEPT !.pc = "raised", !.cause = "resolver",
                               !.exc_len = 39 + DirLen + 1 + 10]
       \/ calc' = [calc EXCEPT !.pc = "resolved"]
    /\ UNCHANGED <<coreVars, convVars, fetch>>

local_canvas ==
    /\ calc.pc = "resolved"
    /\ calc' = [calc EXCEPT !.pc = "sized",
                            !.target_w = Canvas(calc.aspect_ratio)[1],
                            !.target_h = Canvas(calc.aspect_ratio)[2]]
    /\ UNCHANGED <<coreVars, convVars, fetch>>

\* Popen, the stderr loop, wait(timeout=600), the return code and the
\* existence check
local_run ==
    /\ calc.pc = "sized"
    /\ \/ \E has_template \in BOOLEAN, has_watermark \in BOOLEAN :
            calc' = [calc EXCEPT !.pc = "raised", !.cause = "timeout",
                         !.exc_len = timeout_message_len(calc.fname_len,
                                         calc.tmpl_len, calc.target_w,
                                         has_template, has_watermark)]
       \/ \E n \in 0..MaxErrLines, l \in LineLens :
            calc' = [calc EXCEPT !.pc = "raised", !.cause = "nonzero",
                         !.exc_len = nonzero_message_len(n, l)]
       \/ calc' = [calc EXCEPT !.pc = "raised", !.cause = "missing",
                               !.exc_len = 23]
       \/ calc' = [calc EXCEPT !.pc = "returned"]
    /\ UNCHANGED <<coreVars, convVars, fetch>>

\* error_msg = str(e); update_job_status(job_id, 'failed', error_message=error_msg)
local_except ==
    /\ calc.pc = "raised"
    /\ calc' = [calc EXCEPT !.pc = "stored", !.msg_len = calc.exc_len]
    /\ UNCHANGED <<coreVars, convVars, fetch>>

\* the next call
local_reset ==
    /\ calc.pc \in {"stored", "returned"}
    /\ calc' = NoCalc
    /\ UNCHANGED <<coreVars, convVars, fetch>>

LocalNext ==
    \/ local_call
    \/ local_guard_resolve
    \/ local_canvas
    \/ local_run
    \/ local_except
    \/ local_reset

LocalSpec == Init /\ [][LocalNext]_vars

\* -------------------------------- watermark conversion: convert_watermark
\* A file name is the sequence of its stem and its dot-separated extensions.
Exts == {".webm", ".mp4", ".mov", ".bak"}
\* secure_filename(file.filename) of the uploads clients send
ConvNames == {<<"clip", ".webm">>, <<"clip", ".mov">>, <<"clip", ".mp4">>,
              <<"other", ".webm">>, <<"a", ".webm", ".bak">>, <<"noext">>}
\* what subprocess.run(cmd, timeout=300) does: it cannot start ffmpeg, the
\* run exceeds the timeout, ffmpeg exits non-zero, exits 0 having written the
\* output, or exits 0 without an output file
ConvRuns == {"nospawn", "timeout", "nonzero", "ok", "ok_nofile"}

\* os.path.splitext(name)[0]
splitext_root(name) ==
    IF Len(name) > 1 /\ name[Len(name)] \in Exts
    THEN SubSeq(name, 1, Len(name) - 1) ELSE name

\* mp4_filename = webm_filename.replace('.webm', '.mp4'); if it does not end
\* with '.mp4' the last extension is replaced by '.mp4'
Mp4Filename(webm_filename) ==
    LET replaced == [i \in DOMAIN webm_filename |->
                        IF webm_filename[i] = ".webm" THEN ".mp4"
                        ELSE webm_filename[i]]
    IN IF replaced[Len(replaced)] = ".mp4" THEN replaced
       ELSE splitext_root(replaced) \o <<".mp4">>

\* the path under OUTPUT_DIR request c's ffmpeg writes
conv_output_path(c) == Mp4Filename(cname[c])

\* temp_webm = gettempdir()/f"{uuid4().hex}_{webm_filename}"; file.save
convert_watermark_save(c) ==
    /\ cpc[c] = "idle"
    /\ \A d \in Conversions : d < c => cpc[d] # "idle"
    /\ \E name \in ConvNames : cname' = [cname EXCEPT ![c] = name]
    /\ ctemp' = ctemp \cup {c}
    /\ cpc' = [cpc EXCEPT ![c] = "saved"]
    /\ UNCHANGED <<coreVars, calc, fetch, cout>>

\* log_event('info', None, 'Converting watermarked video: ...'), then
\* subprocess.run starts ffmpeg, or raises when it cannot
convert_watermark_run(c) ==
    /\ cpc[c] = "saved"
    /\ log' = log_event("info", NoJobId, "Converting watermarked video")
    /\ \E run \in ConvRuns :
        /\ cout' = [cout EXCEPT ![c] = run]
        /\ cpc' = [cpc EXCEPT ![c] = IF run = "nospawn" THEN "except"
                                      ELSE "running"]
    /\ UNCHANGED <<psutil, jobs, reqVars, workVars, calc, fetch, cname, ctemp>>

\* subprocess.run returns or raises TimeoutExpired; on return os.remove(
\* temp_webm), then the return code (log_event 'Conversion failed', 500),
\* then os.path.getsize(output_path), log_event 'Conversion complete', 200
convert_watermark_finish(c) ==
    /\ cpc[c] = "running"
    /\ IF cout[c] = "timeout"
       THEN /\ cpc' = [cpc EXCEPT ![c] = "except"]
            /\ UNCHANGED <<ctemp, log>>
       ELSE /\ ctemp' = ctemp \ {c}
            /\ IF cout[c] = "ok_nofile"
               THEN /\ cpc' = [cpc EXCEPT ![c] = "except"]
                    /\ UNCHANGED log
               ELSE /\ cpc' = [cpc EXCEPT ![c] = "done"]
                    /\ log' = IF cout[c] = "nonzero"
                              THEN log_event("error", NoJobId, "Conversion failed")
                              ELSE log_event("info", NoJobId, "Conversion complete")
    /\ UNCHANGED <<psutil, jobs, reqVars, workVars, calc, fetch, cname, cout>>

\* except subprocess.TimeoutExpired: log_event 'Conversion timeout (>5min)';
\* except Exception: log_event 'Conversion exception: ...'; both answer 500
convert_watermark_except(c) ==
    /\ cpc[c] = "except"
    /\ log' = IF cout[c] = "timeout"
              THEN log_event("error", NoJobId, "Conversion timeout (>5min)")
              ELSE log_event("error", NoJobId, "Conversion exception")
    /\ cpc' = [cpc EXCEPT ![c] = "done"]
    /\ UNCHANGED <<psutil, jobs, reqVars, workVars, calc, fetch, cname, cout, ctemp>>

ConvertNext ==
    \/ \E c \in Conversions : convert_watermark_save(c)
    \/ \E c \in Conversions : convert_watermark_run(c)
    \/ \E c \in Conversions : convert_watermark_finish(c)
    \/ \E c \in Conversions : convert_watermark_except(c)

ConvertSpec == Init /\ [][ConvertNext]_vars

\* ------------------------------------ remote fetch: fetch_videos_from_urls
\* most URLs a request can carry in the model
MaxUrlCount == 6
\* if len(urls) > 5
FetchLimit == 5

\* URLs clients send: two that download, one whose extraction raises
Urls == {"a", "b", "bad"}
Downloadable == {"a", "b"}

RECURSIVE UrlLists(_)
\* the lists of n URLs
UrlLists(n) ==
    IF n = 0 THEN {<<>>}
    ELSE {Append(l, u) : l \in UrlLists(n - 1), u \in Urls}

\* the request body: a JSON value that is not an object, an object without
\* 'urls', an object whose 'urls' is a string, or an object whose 'urls' is
\* a list
FetchBodies ==
    {[kind |-> k, urls |-> <<>>] : k \in {"notdict", "absent", "string"}}
    \cup {[kind |-> "list", urls |-> l] :
              l \in UNION {UrlLists(n) : n \in 0..MaxUrlCount}}

RECURSIVE success_count(_)
\* sum(1 for r in results if r.get('success'))
success_count(results) ==
    IF results = <<>> THEN 0
    ELSE (IF results[Len(results)].success THEN 1 ELSE 0)
         + success_count(SubSeq(results, 1, Len(results) - 1))

\* try: from yt_dlp import YoutubeDL / except ImportError: YoutubeDL = None
fetch_import ==
    /\ fetch.pc = "unloaded"
    /\ \E installed \in BOOLEAN :
         fetch' = [fetch EXCEPT !.pc = "idle", !.YoutubeDL = installed]
    /\ UNCHANGED <<coreVars, calc, convVars>>

\* the checks before the loop, then log_event('info', None, 'Fetching n URLs')
fetch_videos_from_urls_check ==
    /\ fetch.pc = "idle"
    /\ \E body \in FetchBodies :
         IF ~fetch.YoutubeDL
         THEN /\ fetch' = [fetch EXCEPT !.pc = "done", !.kind = body.kind,
                              !.urls = body.urls,
                              !.resp = [NoFetchResp EXCEPT !.code = 500]]
              /\ UNCHANGED log
         ELSE IF body.kind = "notdict"
         THEN /\ fetch' = [fetch EXCEPT !.pc = "handler", !.kind = body.kind,
                              !.urls = body.urls]
              /\ UNCHANGED log
         ELSE IF body.kind # "list" \/ Len(body.urls) = 0
                 \/ Len(body.urls) > FetchLimit
         THEN /\ fetch' = [fetch EXCEPT !.pc = "done", !.kind = body.kind,
                              !.urls = body.urls,
                              !.resp = [NoFetchResp EXCEPT !.code = 400]]
              /\ UNCHANGED log
         ELSE /\ fetch' = [fetch EXCEPT !.pc = "loop", !.kind = body.kind,
                              !.urls = body.urls]
              /\ log' = log_event("info", NoJobId, "Fetching URLs")
    /\ UNCHANGED <<psutil, jobs, reqVars, workVars, calc, convVars>>

\* for url in urls: download_one(url) enters ydl.extract_info(url, download=True)
fetch_download_one_begin ==
    /\ fetch.pc = "loop"
    /\ Len(fetch.results) < Len(fetch.urls)
    /\ fetch' = [fetch EXCEPT !.pc = "downloading",
                     !.started = Append(@, fetch.urls[Len(fetch.results) + 1])]
    /\ UNCHANGED <<coreVars, calc, convVars>>

\* the first failed download ends the request
fetch_download_one_abort ==
    /\ fetch.pc = "downloading"
    /\ LET url == fetch.started[Len(fetch.started)] IN
         IF url \in Downloadable
         THEN fetch' = [fetch EXCEPT !.pc = "loop",
                  !.results = Append(@, [url |-> url, success |-> TRUE])]
         ELSE fetch' = [fetch EXCEPT !.pc = "handler"]
    /\ UNCHANGED <<coreVars, calc, convVars>>

\* download_one returns the success result, or the failure result built by
\* its own except Exception; results.append(...)
fetch_download_one ==
    /\ fetch.pc = "downloading"
    /\ LET url == fetch.started[Len(fetch.started)] IN
         fetch' = [fetch EXCEPT !.pc = "loop",
             !.results = Append(@, [url |-> url,
                                    success |-> url \in Downloadable])]
    /\ UNCHANGED <<coreVars, calc, convVars>>

\* after the loop: log_event('info', None, 'Fetch complete: ...') and the
\* 200 response
fetch_videos_from_urls_return ==
    /\ fetch.pc = "loop"
    /\ Len(fetch.results) = Len(fetch.urls)
    /\ log' = log_event("info", NoJobId, "Fetch complete")
    /\ fetch' = [fetch EXCEPT !.pc = "done",
                     !.resp = [code |-> 200, success |-> TRUE,
                               total |-> Len(fetch.urls),
                               successful |-> success_count(fetch.results),
                               results |-> fetch.results]]
    /\ UNCHANGED <<psutil, jobs, reqVars, workVars, calc, convVars>>

\* except Exception: log_event('error', None, 'Fetch failed: ...'), 500
fetch_videos_from_urls_except ==
    /\ fetch.pc = "handler"
    /\ log' = log_event("error", NoJobId, "Fetch failed")
    /\ fetch' = [fetch EXCEPT !.pc = "done",
                     !.resp = [NoFetchResp EXCEPT !.code = 500]]
    /\ UNCHANGED <<psutil, jobs, reqVars, workVars, calc, convVars>>

FetchNext ==
    \/ fetch_import
    \/ fetch_videos_from_urls_check
    \/ fetch_download_one_begin
    \/ fetch_download_one
    \/ fetch_videos_from_urls_return
    \/ fetch_videos_from_urls_except

FetchSpec == Init /\ [][FetchNext]_vars

\* ======================================================== the claims
Rank(status) ==
    CASE status = "absent" -> 0
      [] status = "queued" -> 1
      [] status = "processing" -> 2
      [] status \in Terminal -> 3

\* C1: every job whose execution has begun ends with a terminal status: a
\* thread that has begun and has no step left to take (it finished, or it
\* can never move again) has left completed or failed in the job row.
C1_BegunEndsTerminal ==
    \A j \in JobIds :
        (wpc[j] # "idle" /\ ~ENABLED process_async(j))
            => jobs[j].status \in Terminal

\* C2: the stored status of a job never moves backwards in the order
\* queued < processing < {completed, failed}, and a terminal status is
\* never changed by a later write.
C2_StatusMonotonic ==
    [][\A j \in JobIds :
          /\ Rank(jobs'[j].status) >= Rank(jobs[j].status)
          /\ jobs[j].status \in Terminal => jobs'[j].status = jobs[j].status]_vars

C2_Witness ==
    /\ jobs[1].status = "completed"
    /\ jobs[2].status = "failed"
    /\ wpc[1] = "done"
    /\ wpc[2] = "done"

\* C3 as stated: the first get_status after submit returned answers queued.
C3_FirstPollQueued ==
    \A r \in Requests : obs[r] # NoPoll => obs[r].status = "queued"

\* C3 amended: the first get_status after submit returned never answers
\* NotFound; it answers queued or a later status of the job (processing,
\* completed, failed), depending on how far the thread has run.
C3_FirstPollFound ==
    \A r \in Requests :
        obs[r] # NoPoll => obs[r].code = 200 /\ obs[r].status \in Statuses

C3_Witness ==
    \E r \in Requests : obs[r] # NoPoll /\ obs[r].status = "processing"

\* C4: completed rows carry output_path and no error_message, failed rows
\* carry error_message and no output_path, queued and processing rows
\* carry neither.
C4_FieldsMatchStatus ==
    \A j \in JobIds :
        LET job == jobs[j] IN
        /\ job.status = "completed"
              => job.output_path # None /\ job.error_message = None
        /\ job.status = "failed"
              => job.error_message # None /\ job.output_path = None
        /\ job.status \in {"queued", "processing"}
              => job.output_path = None /\ job.error_message = None

C4_Witness ==
    \E j, k \in JobIds :
        /\ jobs[j].status = "completed" /\ jobs[j].output_path = OutputFilename(j)
        /\ jobs[k].status = "failed" /\ jobs[k].error_message = <<"FFmpeg failed">>

\* C5: a job is completed only when the subprocess exited with code 0 and
\* the output file exists and is larger than 1000 bytes; an exit 0 with an
\* empty or undersized file never gives completed.
C5_CompletedOnlyIfVerified ==
    \A j \in JobIds :
        jobs[j].status = "completed"
            => /\ proc[j].beh = "exit"
               /\ proc[j].code = 0
               /\ proc[j].out # NoFile
               /\ proc[j].out > 1000

C7_WaitIsBounded ==
    \A j \in JobIds :
        wpc[j] \in {"read_stderr", "wait"} => ENABLED process_async(j)

\* C8: no job row goes from queued directly to failed or completed: the
\* status that follows queued is processing.
C8_QueuedThenProcessing ==
    [][\A j \in JobIds :
          jobs[j].status = "queued"
              => jobs'[j].status \in {"queued", "processing"}]_vars

\* C9: once the thread is started, submit can return whatever state the
\* execution is in, and a request that started its thread answers success
\* whatever happens in the execution.
C9_SubmitNeverWaits ==
    \A r \in Requests :
        /\ rpc[r] = "started" => ENABLED process_video_endpoint_return(r)
        /\ (r \in threadReqs /\ rpc[r] = "done")
              => resp[r].code = 200 /\ resp[r].success

C9_Witness ==
    \E r, q \in Requests :
        /\ rpc[r] = "done" /\ resp[r].success
        /\ wpc[rjob[r]] = "read_stderr" /\ proc[rjob[r]].beh = "hang_open"
        /\ rpc[q] = "started"
        /\ wpc[rjob[q]] = "except_update"

\* C10: a submit whose create_job raised answers an error in the same call
\* and starts no thread.
C10_CreateFailureSynchronous ==
    \A r \in Requests :
        rfail[r]
            => /\ r \notin threadReqs
               /\ rpc[r] \in {"handler", "done"}
               /\ rpc[r] = "done" => resp[r].code = 500 /\ ~resp[r].success

C10_Witness ==
    \E r \in Requests :
        /\ rfail[r]
        /\ rpc[r] = "done"
        /\ resp[r].code = 500
        /\ jobs[rjob[r]].status # "absent"

\* C11: a completed row names the output file "{template}_{job_id}.mp4"
\* and that file exists in the output area: the existence check comes
\* before the completed write.
C11_CompletedOutputExists ==
    \A j \in JobIds :
        jobs[j].status = "completed"
            => /\ jobs[j].output_path = <<"ScotlandWTF", "_", j, ".mp4">>
               /\ proc[j].out # NoFile

C11_Witness ==
    \E j \in JobIds :
        /\ jobs[j].status = "completed"
        /\ proc[j].beh = "exit" /\ proc[j].out = 1001
        /\ wpc[j] = "done"

\* C12: the canvas is a total function of the request's aspect_ratio field:
\* "1:1" gives 1080x1080, "16:9" gives 1920x1080, and "9:16", an absent
\* field, the empty string and every other value give 1080x1920.
C12_CanvasTable ==
    calc.pc \in {"sized", "raised", "stored", "returned"} /\ calc.target_w # 0
        => <<calc.target_w, calc.target_h>> =
             CASE calc.field = "9:16" -> <<1080, 1920>>
               [] calc.field = "1:1" -> <<1080, 1080>>
               [] calc.field = "16:9" -> <<1920, 1080>>
               [] OTHER -> <<1080, 1920>>

C12_Witness ==
    /\ calc.pc = "sized"
    /\ calc.field = "4:3"
    /\ calc.target_w = 1080 /\ calc.target_h = 1920

\* C13: the error_message stored on a failed job is at most a few hundred
\* characters long, whatever the cause of the failure.
C13_ErrorMessageBounded ==
    calc.pc = "stored" => calc.msg_len <= 999

\* C14: get_status is read-only: a call changes no job row and no event
\* log row, and a second call made right after it, with the store as the
\* first call left it, returns the same response.
C14_GetStatusReadOnly ==
    [][\A r \in Requests :
          obs'[r] # obs[r]
              => /\ jobs' = jobs
                 /\ log' = log
                 /\ obs'[r] = status_response(resp[r].job_id)']_vars

C14_Witness ==
    \E r \in Requests :
        /\ obs[r] # NoPoll
        /\ obs[r].code = 200
        /\ obs[r].status = "processing"
        /\ jobs[resp[r].job_id].status = "processing"

\* C15: the transcoder is spawned at most once per job: the subprocess
\* exists exactly when the one Popen call was made, the steps after Popen
\* are reached only through it, and no failure leads back to a second spawn.
C15_SpawnedAtMostOnce ==
    \A j \in JobIds :
        /\ spawns[j] <= 1
        /\ (spawns[j] = 1) <=> (proc[j] # NoProc)
        /\ wpc[j] \in {"read_stderr", "wait", "log_complete", "set_completed"}
               => spawns[j] = 1

C15_Witness ==
    \E j \in JobIds :
        /\ wpc[j] = "done"
        /\ jobs[j].status = "failed"
        /\ proc[j].beh = "exit" /\ proc[j].code = 1
        /\ spawns[j] = 1

\* C16: the uploaded WebM saved in the temp directory is gone once the
\* conversion request has returned, on every exit path.
C16_TempRemovedOnEveryExit ==
    \A c \in Conversions : cpc[c] = "done" => c \notin ctemp

\* C17: two conversions running at the same time never write the same path
\* of the output area.
C17_ConcurrentWritersDisjoint ==
    \A c \in Conversions : \A d \in Conversions :
        (c # d /\ cpc[c] = "running" /\ cpc[d] = "running")
            => conv_output_path(c) # conv_output_path(d)

\* C18: watermark resolution never fails a job: no job ends failed with the
\* exception the directory listing raised as its error_message.
C18_ResolverNeverFailsJob ==
    \A j \in JobIds :
        jobs[j].status = "failed"
            => jobs[j].error_message # <<"No such file or directory">>

\* C19: every row created by submit gets exactly one execution: a request
\* that created its row and has answered has started the thread for it, and
\* no job id has two requests that started a thread.
C19_CreatedGetsOneExecution ==
    /\ \A r \in Requests :
          (rpc[r] = "done" /\ rjob[r] # NoJobId /\ ~rfail[r])
              => r \in threadReqs
    /\ \A r \in threadReqs : \A q \in threadReqs :
          rjob[r] = rjob[q] => r = q

\* C20: the status reported in the submit response is never ahead of what
\* a status read made after that response returns, in the order queued <
\* processing < terminal.
C20_SubmitStatusNotAhead ==
    \A r \in Requests :
        (obs[r] # NoPoll /\ obs[r].code = 200)
            => Rank(obs[r].status) >= Rank(resp[r].status)

\* the positions of the event log rows of job j that carry this message
EventsOf(j, message) == {i \in DOMAIN log[j] : log[j][i][2] = message}

\* C21: the event log agrees with the job store: every terminal event of a
\* job comes after a start event of that job, a 'Processing complete' event
\* exists only when the status is completed or the completed write is the
\* thread's next step, a 'Processing failed' event only when the status is
\* failed or the failed write is the thread's next step, and no job has
\* both events.
C21_LogAgreesWithStore ==
    \A j \in JobIds :
        /\ \A i \in EventsOf(j, "Processing complete")
                    \cup EventsOf(j, "Processing failed") :
              \E k \in EventsOf(j, "Starting video processing") : k < i
        /\ EventsOf(j, "Processing complete") # {}
              => jobs[j].status = "completed" \/ wpc[j] = "set_completed"
        /\ EventsOf(j, "Processing failed") # {}
              => jobs[j].status = "failed" \/ wpc[j] = "except_update"
        /\ EventsOf(j, "Processing complete") = {}
              \/ EventsOf(j, "Processing failed") = {}

\* C22: a step of the execution of job j leaves the row of every other job
\* unchanged: status, output_path and error_message of job k # j are what
\* they were before the step.
C22_ExecutionWritesOwnRow ==
    [][\A j \in JobIds :
          wpc'[j] # wpc[j]
              => \A k \in JobIds \ {j} : jobs'[k] = jobs[k]]_vars

\* two executions side by side: the later submission has completed, the
\* earlier one has failed, and each row holds its own job's outcome
C22_Witness ==
    \E r \in Requests : \E q \in Requests :
        /\ r < q
        /\ r \in threadReqs /\ q \in threadReqs
        /\ jobs[rjob[q]].status = "completed"
        /\ jobs[rjob[r]].status = "failed"
        /\ wpc[rjob[r]] = "returned" /\ wpc[rjob[q]] = "done"

\* C23: the status response of an existing job carries an output reference
\* exactly when the stored status is completed with an output_path set, and
\* an error text exactly when the stored status is failed with an
\* error_message set; for a queued or processing job it carries neither. It
\* holds of the response a read would build in every state, and of every
\* response a client received for the row as it was when read.
C23_ResponseFieldsMatchRow ==
    /\ \A j \in JobIds :
          jobs[j].status # "absent"
              => /\ status_response(j).output_file # None
                      <=> (jobs[j].status = "completed"
                           /\ jobs[j].output_path # None)
                 /\ status_response(j).error # None
                      <=> (jobs[j].status = "failed"
                           /\ jobs[j].error_message # None)
                 /\ jobs[j].status \in {"queued", "processing"}
                      => /\ status_response(j).output_file = None
                         /\ status_response(j).error = None
    /\ \A r \in Requests :
          obs[r] # NoPoll
              => /\ obs[r].output_file # None => obs[r].status = "completed"
                 /\ obs[r].error # None => obs[r].status = "failed"

C23_Witness ==
    \E r \in Requests : \E q \in Requests :
        /\ obs[r].status = "completed"
        /\ obs[r].output_file = OutputFilename(resp[r].job_id)
        /\ obs[q].status = "failed"
        /\ obs[q].error = <<"Output file not created">>

\* the request carried a list of 1 to 5 URLs
FetchAccepted ==
    fetch.kind = "list" /\ Len(fetch.urls) \in 1..FetchLimit

\* downloads are attempted one at a time, in list order
FetchInOrder ==
    /\ Len(fetch.started) <= Len(fetch.urls)
    /\ fetch.started = SubSeq(fetch.urls, 1, Len(fetch.started))
    /\ Len(fetch.started) - Len(fetch.results) =
          (IF fetch.pc = "downloading" THEN 1 ELSE 0)

\* the 200 response: one result per URL, in order, each success flag that of
\* its own download, 'successful' the count of successful results
FetchComplete ==
    /\ fetch.resp.code = 200
    /\ fetch.started = fetch.urls
    /\ fetch.resp.total = Len(fetch.urls)
    /\ Len(fetch.resp.results) = Len(fetch.urls)
    /\ \A i \in DOMAIN fetch.urls :
          /\ fetch.resp.results[i].url = fetch.urls[i]
          /\ fetch.resp.results[i].success = (fetch.urls[i] \in Downloadable)
    /\ fetch.resp.successful =
          Cardinality({i \in DOMAIN fetch.urls : fetch.urls[i] \in Downloadable})

\* a request that is not a list of 1 to 5 URLs is answered with an error
\* and no download was started for it
FetchRejected ==
    (fetch.pc = "done" /\ ~FetchAccepted)
        => fetch.resp.code \in {400, 500} /\ fetch.started = <<>>

\* C24 as stated: a call that is not a list of 1 to 5 URLs is rejected
\* before any download starts; a call with 1 to 5 URLs downloads them one
\* after another in list order and answers with one result per URL.
C24_FetchAlwaysRuns ==
    /\ FetchRejected
    /\ FetchInOrder
    /\ (fetch.pc = "done" /\ FetchAccepted) => FetchComplete

\* C24: the same, for 1 to 5 URLs when the yt_dlp import succeeded; when
\* it failed, every call is answered 500 and no download starts.
C24_FetchRunsIfInstalled ==
    /\ FetchRejected
    /\ FetchInOrder
    /\ (fetch.pc = "done" /\ FetchAccepted /\ fetch.YoutubeDL) => FetchComplete
    /\ (fetch.pc = "done" /\ ~fetch.YoutubeDL)
          => fetch.resp.code = 500 /\ fetch.started = <<>>

C24_Witness ==
    /\ fetch.pc = "done"
    /\ fetch.urls = <<"a", "bad", "b">>
    /\ fetch.resp.code = 200
    /\ fetch.resp.successful = 2
    /\ ~fetch.resp.results[2].success /\ fetch.resp.results[3].success

====
